---- MODULE Spec2Model ----
(***************************************************************************)
(* A model of the 2048 engine of src/game.py (class Game2048).             *)
(*                                                                         *)
(* A board is a sequence of rows, each row a sequence of cell values, as   *)
(* the list of lists of the source.  Indices are 1-based here and 0-based  *)
(* in the source.                                                          *)
(***************************************************************************)
EXTENDS Integers, Sequences, FiniteSets

VARIABLES
    size,       \* self.size
    board,      \* self.board
    score,      \* self.score
    game_won,   \* self.game_won
    op,         \* the method called last: "init", "move", "add_new_tile", ...
    arg,        \* the direction passed to the last call of move ("" otherwise)
    ret,        \* what the last call returned (FALSE for a method returning None)
    pre_board,  \* self.board when the last call started
    pre_score,  \* self.score when the last call started
    pre_won,    \* self.game_won when the last call started
    prev,       \* the call before the last one, in SpecBoards: its op, arg, ret
                \* and the score it added
    calls       \* number of calls made, where a specification bounds it

vars == <<size, board, score, game_won, op, arg, ret,
          pre_board, pre_score, pre_won, prev, calls>>

-----------------------------------------------------------------------------
(* Program constants                                                       *)

DEFAULT_SIZE == 4

win_value == 2048

Directions == {"w", "a", "s", "d"}

-----------------------------------------------------------------------------
(* Bounds of the model                                                     *)

\* Spec constructs a game of every size from 2 to MaxSize
MaxSize == 3

\* Spec on boards larger than 2, SpecBoards and SpecLate make at most MaxCalls
\* calls from each initial state
MaxCalls == 2

\* SpecBoards draws its boards over the tiles 0, 2, ..., 2^MaxExp
MaxExp == 2

\* what a caller may pass to move(): the four directions and two other values
Inputs == Directions \cup {"q", "W"}

-----------------------------------------------------------------------------
(* Pure helpers of Game2048                                                *)

\* The list holding f[1], ..., f[k]: a list comprehension of the source is
\* the function it describes, built element by element.
RECURSIVE ListOf(_, _)
ListOf(f, k) == IF k = 0 THEN <<>> ELSE Append(ListOf(f, k - 1), f[k])

\* [[0] * size for _ in range(size)]
ZeroBoard(n) == ListOf([r \in 1..n |-> ListOf([c \in 1..n |-> 0], n)], n)

\* Compress removing only the first zero of the row
Compress_FirstZero(row) ==
    IF \A k \in 1..Len(row) : row[k] # 0
    THEN row
    ELSE LET z == CHOOSE k \in 1..Len(row) :
                      row[k] = 0 /\ \A j \in 1..(k - 1) : row[j] # 0
         IN  SubSeq(row, 1, z - 1) \o SubSeq(row, z + 1, Len(row))

\* compressed_row = [i for i in row if i != 0]
Compress(row) == SelectSeq(row, LAMBDA v : v # 0)

\* MergeLoop with the score updated for every cell kept, not only for a merge
RECURSIVE MergeLoop_ScoresKept(_, _, _)
MergeLoop_ScoresKept(c, i, acc) ==
    IF i > Len(c)
    THEN acc
    ELSE IF i + 1 <= Len(c) /\ c[i] = c[i + 1]
         THEN LET merged_val == c[i] * 2
              IN  MergeLoop_ScoresKept(c, i + 2,
                            [row  |-> Append(acc.row, merged_val),
                             gain |-> acc.gain + merged_val,
                             hit  |-> acc.hit \/ (merged_val = win_value)])
         ELSE MergeLoop_ScoresKept(c, i + 1,
                            [acc EXCEPT !.row = Append(@, c[i]), !.gain = @ + c[i]])

\* MergeLoop with the score updated by the value of one merged cell, not by
\* the merged value
RECURSIVE MergeLoop_ScoresHalf(_, _, _)
MergeLoop_ScoresHalf(c, i, acc) ==
    IF i > Len(c)
    THEN acc
    ELSE IF i + 1 <= Len(c) /\ c[i] = c[i + 1]
         THEN LET merged_val == c[i] * 2
              IN  MergeLoop_ScoresHalf(c, i + 2,
                            [row  |-> Append(acc.row, merged_val),
                             gain |-> acc.gain + c[i],
                             hit  |-> acc.hit \/ (merged_val = win_value)])
         ELSE MergeLoop_ScoresHalf(c, i + 1, [acc EXCEPT !.row = Append(@, c[i])])

\* MergeLoop with the win test of the last merge of the row overwriting the
\* tests before it
RECURSIVE MergeLoop_LastHit(_, _, _)
MergeLoop_LastHit(c, i, acc) ==
    IF i > Len(c)
    THEN acc
    ELSE IF i + 1 <= Len(c) /\ c[i] = c[i + 1]
         THEN LET merged_val == c[i] * 2
              IN  MergeLoop_LastHit(c, i + 2,
                            [row  |-> Append(acc.row, merged_val),
                             gain |-> acc.gain + merged_val,
                             hit  |-> (merged_val = win_value)])
         ELSE MergeLoop_LastHit(c, i + 1, [acc EXCEPT !.row = Append(@, c[i])])

\* MergeLoop with a merge giving three times the cell, not twice
RECURSIVE MergeLoop_Triples(_, _, _)
MergeLoop_Triples(c, i, acc) ==
    IF i > Len(c)
    THEN acc
    ELSE IF i + 1 <= Len(c) /\ c[i] = c[i + 1]
         THEN LET merged_val == c[i] * 3
              IN  MergeLoop_Triples(c, i + 2,
                            [row  |-> Append(acc.row, merged_val),
                             gain |-> acc.gain + merged_val,
                             hit  |-> acc.hit \/ (merged_val = win_value)])
         ELSE MergeLoop_Triples(c, i + 1, [acc EXCEPT !.row = Append(@, c[i])])

\* MergeLoop with a merge keeping the value of the cell, not doubling it
RECURSIVE MergeLoop_NoDouble(_, _, _)
MergeLoop_NoDouble(c, i, acc) ==
    IF i > Len(c)
    THEN acc
    ELSE IF i + 1 <= Len(c) /\ c[i] = c[i + 1]
         THEN LET merged_val == c[i]
              IN  MergeLoop_NoDouble(c, i + 2,
                            [row  |-> Append(acc.row, merged_val),
                             gain |-> acc.gain + merged_val,
                             hit  |-> acc.hit \/ (merged_val = win_value)])
         ELSE MergeLoop_NoDouble(c, i + 1, [acc EXCEPT !.row = Append(@, c[i])])

\* MergeLoop without the test of merged_val against win_value
RECURSIVE MergeLoop_NoWinTest(_, _, _)
MergeLoop_NoWinTest(c, i, acc) ==
    IF i > Len(c)
    THEN acc
    ELSE IF i + 1 <= Len(c) /\ c[i] = c[i + 1]
         THEN LET merged_val == c[i] * 2
              IN  MergeLoop_NoWinTest(c, i + 2,
                            [row  |-> Append(acc.row, merged_val),
                             gain |-> acc.gain + merged_val,
                             hit  |-> acc.hit])
         ELSE MergeLoop_NoWinTest(c, i + 1, [acc EXCEPT !.row = Append(@, c[i])])

\* The while loop of _move_left over compressed_row c, from (1-based) index i,
\* with acc the merged_row built so far, the score added so far and whether a
\* merge has given win_value so far.
RECURSIVE MergeLoop(_, _, _)
MergeLoop(c, i, acc) ==
    IF i > Len(c)
    THEN acc
    ELSE IF i + 1 <= Len(c) /\ c[i] = c[i + 1]
         THEN LET merged_val == c[i] * 2
              IN  MergeLoop(c, i + 2,
                            [row  |-> Append(acc.row, merged_val),
                             gain |-> acc.gain + merged_val,
                             hit  |-> acc.hit \/ (merged_val = win_value)])
         ELSE MergeLoop(c, i + 1, [acc EXCEPT !.row = Append(@, c[i])])

\* the padding put before the merged row, not after it
Pad_Left(row, n) == ListOf([k \in 1..(n - Len(row)) |-> 0], n - Len(row)) \o row

\* merged_row += [0] * (self.size - len(merged_row))
Pad(row, n) == row \o ListOf([k \in 1..(n - Len(row)) |-> 0], n - Len(row))

\* One iteration of "for row in board" of _move_left.
MoveRowLeft(row, n) ==
    LET m == MergeLoop(Compress(row), 1, [row |-> <<>>, gain |-> 0, hit |-> FALSE])
    IN  [row |-> Pad(m.row, n), gain |-> m.gain, hit |-> m.hit]

RECURSIVE SumGain(_, _)
SumGain(rows, k) == IF k = 0 THEN 0 ELSE rows[k].gain + SumGain(rows, k - 1)

\* _move_left(board) on a game of size n: the new board, the amount added to
\* self.score and whether self.game_won is set by one of the merges.
move_left(b, n) ==
    LET rows == ListOf([r \in 1..Len(b) |-> MoveRowLeft(b[r], n)], Len(b))
    IN  [board |-> ListOf([r \in 1..Len(b) |-> rows[r].row], Len(b)),
         gain  |-> SumGain(rows, Len(b)),
         hit   |-> \E r \in 1..Len(b) : rows[r].hit]

\* zip applied to the rows in reverse order: a quarter turn of the board
transpose_Rotate(b) ==
    IF Len(b) = 0 THEN <<>>
    ELSE ListOf([c \in 1..Len(b[1]) |->
                    ListOf([r \in 1..Len(b) |-> b[Len(b) + 1 - r][c]], Len(b))], Len(b[1]))

\* [list(row) for row in zip(*board)]
transpose(b) ==
    IF Len(b) = 0 THEN <<>>
    ELSE ListOf([c \in 1..Len(b[1]) |->
                    ListOf([r \in 1..Len(b) |-> b[r][c]], Len(b))], Len(b[1]))

\* [row[::-1] for row in board]
reverse(b) ==
    ListOf([r \in 1..Len(b) |->
               ListOf([c \in 1..Len(b[r]) |-> b[r][Len(b[r]) + 1 - c]], Len(b[r]))],
           Len(b))

\* the dispatch of move() with 's' handled as 'w': the rows are not reversed
applyMove_DownAsUp(b, direction, n) ==
    IF direction = "w" \/ direction = "s"
    THEN LET m == move_left(transpose(b), n)
         IN  [m EXCEPT !.board = transpose(m.board)]
    ELSE IF direction = "a"
    THEN move_left(b, n)
    ELSE LET m == move_left(reverse(b), n)
         IN  [m EXCEPT !.board = reverse(m.board)]

\* The dispatch of move() on a valid direction (lines 143-158): the board
\* assigned to self.board, the score added and the win flag hit.
applyMove(b, direction, n) ==
    IF direction = "w"
    THEN LET m == move_left(transpose(b), n)
         IN  [m EXCEPT !.board = transpose(m.board)]
    ELSE IF direction = "s"
    THEN LET m == move_left(reverse(transpose(b)), n)
         IN  [m EXCEPT !.board = transpose(reverse(m.board))]
    ELSE IF direction = "a"
    THEN move_left(b, n)
    ELSE LET m == move_left(reverse(b), n)
         IN  [m EXCEPT !.board = reverse(m.board)]

\* empty_cells of add_new_tile
EmptyCells(b, n) == {rc \in (1..n) \X (1..n) : b[rc[1]][rc[2]] = 0}

\* a tile of 8 drawn as well
NewTileValues_WithEight == {2, 4, 8}

\* the values add_new_tile can draw: 4 if random.random() < 0.1 else 2
NewTileValues == {2, 4}

\* add_new_tile without the test for an empty cell: any cell may be drawn
add_new_tile_AnyCell(b, n) ==
    IF EmptyCells(b, n) = {}
    THEN {b}
    ELSE {[b EXCEPT ![rc[1]][rc[2]] = v] : rc \in (1..n) \X (1..n), v \in NewTileValues}

\* add_new_tile without the test "if empty_cells": a full board has a cell
\* overwritten
add_new_tile_Overwrites(b, n) ==
    LET cells == IF EmptyCells(b, n) = {} THEN (1..n) \X (1..n) ELSE EmptyCells(b, n)
    IN  {[b EXCEPT ![rc[1]][rc[2]] = v] : rc \in cells, v \in NewTileValues}

\* Every board add_new_tile can leave, over the choices of the random source.
add_new_tile(b, n) ==
    IF EmptyCells(b, n) = {}
    THEN {b}
    ELSE {[b EXCEPT ![rc[1]][rc[2]] = v] : rc \in EmptyCells(b, n), v \in NewTileValues}

\* is_game_over without the scan of the cells below
is_game_over_RowsOnly(b, n) ==
    IF \E r \in 0..(n - 1), c \in 0..(n - 1) : b[r + 1][c + 1] = 0
    THEN FALSE
    ELSE IF \E r \in 0..(n - 1), c \in 0..(n - 1) :
                c + 1 < n /\ b[r + 1][c + 1] = b[r + 1][c + 2]
         THEN FALSE
         ELSE TRUE

\* is_game_over without the scan for an empty cell
is_game_over_NoEmptyScan(b, n) ==
    IF \E r \in 0..(n - 1), c \in 0..(n - 1) :
            \/ c + 1 < n /\ b[r + 1][c + 1] = b[r + 1][c + 2]
            \/ r + 1 < n /\ b[r + 1][c + 1] = b[r + 2][c + 1]
    THEN FALSE
    ELSE TRUE

\* is_game_over with the right-hand neighbour tested one column short
is_game_over_ShortRow(b, n) ==
    IF \E r \in 0..(n - 1), c \in 0..(n - 1) : b[r + 1][c + 1] = 0
    THEN FALSE
    ELSE IF \E r \in 0..(n - 1), c \in 0..(n - 1) :
                \/ c + 2 < n /\ b[r + 1][c + 1] = b[r + 1][c + 2]
                \/ r + 1 < n /\ b[r + 1][c + 1] = b[r + 2][c + 1]
         THEN FALSE
         ELSE TRUE

\* is_game_over with the cell below compared to the cell itself
is_game_over_SelfCompare(b, n) ==
    IF \E r \in 0..(n - 1), c \in 0..(n - 1) : b[r + 1][c + 1] = 0
    THEN FALSE
    ELSE IF \E r \in 0..(n - 1), c \in 0..(n - 1) :
                \/ c + 1 < n /\ b[r + 1][c + 1] = b[r + 1][c + 2]
                \/ r + 1 < n /\ b[r + 1][c + 1] = b[r + 1][c + 1]
         THEN FALSE
         ELSE TRUE

\* is_game_over(): the two scans of the board
is_game_over(b, n) ==
    IF \E r \in 0..(n - 1), c \in 0..(n - 1) : b[r + 1][c + 1] = 0
    THEN FALSE
    ELSE IF \E r \in 0..(n - 1), c \in 0..(n - 1) :
                \/ c + 1 < n /\ b[r + 1][c + 1] = b[r + 1][c + 2]
                \/ r + 1 < n /\ b[r + 1][c + 1] = b[r + 2][c + 1]
         THEN FALSE
         ELSE TRUE

-----------------------------------------------------------------------------
(* Operations                                                              *)

NoCall == [op |-> "", arg |-> "", ret |-> FALSE, gain |-> 0]

\* __init__ with a single call of add_new_tile
Construct_OneTile(n) ==
    /\ size = n
    /\ board \in add_new_tile(ZeroBoard(n), n)
    /\ score = 0
    /\ game_won = FALSE
    /\ op = "init"
    /\ arg = ""
    /\ ret = FALSE
    /\ pre_board = ZeroBoard(n)
    /\ pre_score = 0
    /\ pre_won = FALSE
    /\ prev = NoCall
    /\ calls = 0

\* Game2048.__init__(size): an empty board, then add_new_tile() twice.
Construct(n) ==
    /\ size = n
    /\ \E b1 \in add_new_tile(ZeroBoard(n), n) : board \in add_new_tile(b1, n)
    /\ score = 0
    /\ game_won = FALSE
    /\ op = "init"
    /\ arg = ""
    /\ ret = FALSE
    /\ pre_board = ZeroBoard(n)
    /\ pre_score = 0
    /\ pre_won = FALSE
    /\ prev = NoCall
    /\ calls = 0

Init == \E n \in 2..MaxSize : Construct(n)

Snapshot ==
    /\ pre_board' = board
    /\ pre_score' = score
    /\ pre_won' = game_won

\* move without the final else: any other value is handled as 'd'
Move_NoElse(direction) ==
    /\ Snapshot
    /\ op' = "move"
    /\ arg' = direction
    /\ size' = size
    /\ LET m == applyMove(board, direction, size)
       IN  /\ score' = score + m.gain
           /\ game_won' = (game_won \/ m.hit)
           /\ IF m.board = board
              THEN /\ board' = board
                   /\ ret' = FALSE
              ELSE /\ board' \in add_new_tile(m.board, size)
                   /\ ret' = TRUE

\* move without the call of add_new_tile
Move_NoSpawn(direction) ==
    /\ Snapshot
    /\ op' = "move"
    /\ arg' = direction
    /\ size' = size
    /\ IF direction \notin Directions
       THEN /\ ret' = FALSE
            /\ UNCHANGED <<board, score, game_won>>
       ELSE LET m == applyMove(board, direction, size)
            IN  /\ score' = score + m.gain
                /\ game_won' = (game_won \/ m.hit)
                /\ IF m.board = board
                   THEN /\ board' = board
                        /\ ret' = FALSE
                   ELSE /\ board' = m.board
                        /\ ret' = TRUE

\* Game2048.move(direction).  When the transformed board equals the board the
\* assignment to self.board leaves its value as it was.
Move(direction) ==
    /\ Snapshot
    /\ op' = "move"
    /\ arg' = direction
    /\ size' = size
    /\ IF direction \notin Directions
       THEN /\ ret' = FALSE
            /\ UNCHANGED <<board, score, game_won>>
       ELSE LET m == applyMove(board, direction, size)
            IN  /\ score' = score + m.gain
                /\ game_won' = (game_won \/ m.hit)
                /\ IF m.board = board
                   THEN /\ board' = board
                        /\ ret' = FALSE
                   ELSE /\ board' \in add_new_tile(m.board, size)
                        /\ ret' = TRUE

\* Game2048.add_new_tile(), called on its own
AddNewTile ==
    /\ Snapshot
    /\ op' = "add_new_tile"
    /\ arg' = ""
    /\ ret' = FALSE
    /\ board' \in add_new_tile(board, size)
    /\ UNCHANGED <<size, score, game_won>>

\* Game2048.is_game_over()
IsGameOver ==
    /\ Snapshot
    /\ op' = "is_game_over"
    /\ arg' = ""
    /\ ret' = is_game_over(board, size)
    /\ UNCHANGED <<size, board, score, game_won>>

\* The transform of move() alone, lines 138-164 without the spawn: the board
\* transform of a valid direction, returning whether the board changed.
ApplyMove(direction) ==
    /\ Snapshot
    /\ op' = "applyMove"
    /\ arg' = direction
    /\ size' = size
    /\ LET m == applyMove(board, direction, size)
       IN  /\ board' = m.board
           /\ score' = score + m.gain
           /\ game_won' = (game_won \/ m.hit)
           /\ ret' = (m.board # board)

\* board = self._transpose(board), as move() does with its temp_board
Transpose ==
    /\ Snapshot
    /\ op' = "_transpose"
    /\ arg' = ""
    /\ ret' = FALSE
    /\ board' = transpose(board)
    /\ UNCHANGED <<size, score, game_won>>

\* board = self._reverse(board), as move() does with its temp_board
Reverse ==
    /\ Snapshot
    /\ op' = "_reverse"
    /\ arg' = ""
    /\ ret' = FALSE
    /\ board' = reverse(board)
    /\ UNCHANGED <<size, score, game_won>>

-----------------------------------------------------------------------------
(* Spec: the game from construction                                       *)

\* one more call, while fewer than MaxCalls have been made
Count ==
    /\ calls < MaxCalls
    /\ calls' = calls + 1

\* The whole game is played on the board of size 2; on a larger board, the
\* first MaxCalls calls of the game.
Explore == IF size = 2 THEN UNCHANGED calls ELSE Count

Next ==
    \/ Explore /\ UNCHANGED prev /\ \E direction \in Inputs : Move(direction)
    \/ Explore /\ UNCHANGED prev /\ AddNewTile
    \/ Explore /\ UNCHANGED prev /\ IsGameOver

Spec == Init /\ [][Next]_vars

-----------------------------------------------------------------------------
(* Properties of move                                                      *)

Cells(n) == (1..n) \X (1..n)

\* the cells in which two boards of size n differ
Differing(b1, b2, n) == {rc \in Cells(n) : b1[rc[1]][rc[2]] # b2[rc[1]][rc[2]]}

\* C1: when move(direction), called with one of the four directions, returns
\* False, the board, the score and game_won are what they were before the
\* call (so no tile was spawned).
C1_NoOpMoveLeavesState ==
    (op = "move" /\ arg \in Directions /\ ret = FALSE)
        => /\ board = pre_board
           /\ score = pre_score
           /\ game_won = pre_won

\* a move in a valid direction returned False although the board holds tiles
\* and is not over
C1_Witness ==
    /\ op = "move" /\ arg \in Directions /\ ret = FALSE
    /\ \E rc \in Cells(size) : pre_board[rc[1]][rc[2]] # 0
    /\ ~is_game_over(pre_board, size)

\* C2: when move(direction) returns True, the board differs from the
\* directional transform of the board before the call in exactly one cell,
\* which was 0 in the transform and now holds 2 or 4; and a transform that
\* changes the board always leaves an empty cell for the spawn.
C2_MoveSpawnsExactlyOne ==
    /\ (op = "move" /\ ret = TRUE)
         => LET t == applyMove(pre_board, arg, size).board
            IN  /\ Cardinality(Differing(board, t, size)) = 1
                /\ \A rc \in Differing(board, t, size) :
                       /\ t[rc[1]][rc[2]] = 0
                       /\ board[rc[1]][rc[2]] \in {2, 4}
    /\ \A d \in Directions :
          LET t == applyMove(board, d, size).board
          IN  t # board => \E rc \in Cells(size) : t[rc[1]][rc[2]] = 0

\* a move returned True after a merge on a board that was full
C2_Witness ==
    /\ op = "move" /\ ret = TRUE
    /\ \A rc \in Cells(size) : pre_board[rc[1]][rc[2]] # 0

\* C3: move called with a value that is none of the four directions returns
\* False and leaves board, score and game_won unchanged.
C3_InvalidDirectionRejected ==
    (op = "move" /\ arg \notin Directions)
        => /\ ret = FALSE
           /\ board = pre_board
           /\ score = pre_score
           /\ game_won = pre_won

\* move was called with an invalid direction on a board that a valid
\* direction would have changed
C3_Witness ==
    /\ op = "move" /\ arg \notin Directions
    /\ \E d \in Directions : applyMove(pre_board, d, size).board # pre_board

-----------------------------------------------------------------------------
(* Properties of the end of the game and of the score                      *)

\* C7: in a state where is_game_over returns true, no call changes the
\* board, the score or game_won, move returns False, and each of the four
\* directions transforms the board into itself without a merge; so the game
\* stays over.
C7_OverStaysOver ==
    /\ is_game_over(pre_board, size)
         => /\ board = pre_board
            /\ score = pre_score
            /\ game_won = pre_won
            /\ op = "move" => ret = FALSE
    /\ is_game_over(board, size)
         => \A d \in Directions :
               /\ applyMove(board, d, size).board = board
               /\ applyMove(board, d, size).gain = 0

\* move was called in a valid direction when the game was over
C7_Witness ==
    /\ is_game_over(pre_board, size)
    /\ op = "move"
    /\ arg \in Directions

\* C8: in every state reached from construction, if is_game_over returns
\* false then some direction is a valid move: its transform changes the
\* board, and move in such a direction returns True and changes the board.
C8_NotOverHasMove ==
    /\ ~is_game_over(board, size)
         => \E d \in Directions : applyMove(board, d, size).board # board
    /\ (op = "move" /\ arg \in Directions
           /\ applyMove(pre_board, arg, size).board # pre_board)
         => (ret = TRUE /\ board # pre_board)

\* is_game_over returned False on a full board, and the move that followed
\* returned True
C8_Witness ==
    /\ op = "move" /\ ret = TRUE
    /\ \A rc \in Cells(size) : pre_board[rc[1]][rc[2]] # 0
    /\ ~is_game_over(pre_board, size)

\* the number of cells of b that hold v
CountOf(b, n, v) == Cardinality({rc \in Cells(n) : b[rc[1]][rc[2]] = v})

\* The number of merges giving the value v in a transform from board b to
\* board t, counted from the tiles alone: the tiles of value v in t are those
\* of b, plus the merges that gave v, minus two for each merge that gave 2v.
\* No tile exceeds top.
RECURSIVE MergesGiving(_, _, _, _, _)
MergesGiving(b, t, n, v, top) ==
    IF v > top
    THEN 0
    ELSE CountOf(t, n, v) - CountOf(b, n, v) + 2 * MergesGiving(b, t, n, 2 * v, top)

\* the sum of the merged values of all the merges of a transform from b to t
RECURSIVE MergedSum(_, _, _, _, _)
MergedSum(b, t, n, v, top) ==
    IF v > top
    THEN 0
    ELSE v * MergesGiving(b, t, n, v, top) + MergedSum(b, t, n, 2 * v, top)

RECURSIVE TileSum(_, _)
TileSum(row, k) == IF k = 0 THEN 0 ELSE row[k] + TileSum(row, k - 1)

\* the sum of all tiles of a board, a bound on every tile of its transforms
BoardSum(b, n) == TileSum([r \in 1..n |-> TileSum(b[r], n)], n)

\* C9: the score never decreases and is never negative; a move in a valid
\* direction adds exactly the sum of the merged values of its merges;
\* add_new_tile and is_game_over leave the score as it was.
C9_ScoreIsSumOfMerges ==
    /\ score >= pre_score
    /\ score >= 0
    /\ (op = "move" /\ arg \in Directions)
         => score - pre_score =
               MergedSum(pre_board, applyMove(pre_board, arg, size).board, size,
                         4, BoardSum(pre_board, size))
    /\ op \in {"add_new_tile", "is_game_over"} => score = pre_score

\* a move merged two pairs at once, of different values
C9_Witness ==
    /\ op = "move" /\ arg \in Directions
    /\ score - pre_score = 12

-----------------------------------------------------------------------------
(* SpecBoards: is_game_over and the transform of move on given boards      *)

RECURSIVE Pow2(_)
Pow2(k) == IF k = 0 THEN 1 ELSE 2 * Pow2(k - 1)

InputTiles == {0} \cup {Pow2(k) : k \in 1..MaxExp}

\* every board of size n over the input tiles
AllBoards(n) ==
    {ListOf([r \in 1..n |-> ListOf(f[r], n)], n) : f \in [1..n -> [1..n -> InputTiles]]}

\* the board of size n that alternates x and y, with the cell hole empty
\* (no cell is empty when hole is <<0, 0>>)
Chequered(n, x, y, hole) ==
    ListOf([r \in 1..n |->
               ListOf([c \in 1..n |-> IF <<r, c>> = hole THEN 0
                                      ELSE IF (r + c) % 2 = 0 THEN x ELSE y], n)], n)

ChequeredBoards(n) ==
    {Chequered(n, x, y, hole) : x \in InputTiles \ {0}, y \in InputTiles \ {0},
                                hole \in Cells(n) \cup {<<0, 0>>}}

\* the boards of size n with tiles in the first row only, or in the first
\* column only
OneLineBoards(n) ==
    LET rows == {ListOf(f, n) : f \in [1..n -> InputTiles]}
        inRow(line) == ListOf([r \in 1..n |->
                           IF r = 1 THEN line ELSE ListOf([c \in 1..n |-> 0], n)], n)
    IN  {inRow(line) : line \in rows} \cup {transpose(inRow(line)) : line \in rows}

\* Every board of size 2 and, of each size from 3 to the default size, the
\* chequered boards and the boards of one line.
InitBoards ==
    /\ \/ size = 2 /\ board \in AllBoards(size)
       \/ /\ size \in 3..DEFAULT_SIZE
          /\ board \in ChequeredBoards(size) \cup OneLineBoards(size)
    /\ score = 0
    /\ game_won = FALSE
    /\ op = "board"
    /\ arg = ""
    /\ ret = FALSE
    /\ pre_board = board
    /\ pre_score = 0
    /\ pre_won = FALSE
    /\ prev = NoCall
    /\ calls = 0

\* the last call becomes the call before the last one
Shift == prev' = [op |-> op, arg |-> arg, ret |-> ret, gain |-> score - pre_score]

NextBoards ==
    \/ Count /\ Shift /\ \E direction \in Directions : ApplyMove(direction)
    \/ Count /\ Shift /\ IsGameOver
    \/ Count /\ Shift /\ Transpose
    \/ Count /\ Shift /\ Reverse

SpecBoards == InitBoards /\ [][NextBoards]_vars

Abs(x) == IF x < 0 THEN -x ELSE x

\* the ordered pairs of horizontally or vertically adjacent cells of equal value
EqualNeighbours(b, n) ==
    {pq \in Cells(n) \X Cells(n) :
        /\ Abs(pq[1][1] - pq[2][1]) + Abs(pq[1][2] - pq[2][2]) = 1
        /\ b[pq[1][1]][pq[1][2]] = b[pq[2][1]][pq[2][2]]}

\* C4: is_game_over returns true if and only if the board has zero empty
\* cells and zero pairs of horizontally or vertically adjacent equal cells.
C4_OverIffFullAndNoPair ==
    op = "is_game_over"
        => (ret = TRUE <=> /\ CountOf(board, size, 0) = 0
                           /\ Cardinality(EqualNeighbours(board, size)) = 0)

\* is_game_over returned true on a board of size 3
C4_Witness ==
    /\ op = "is_game_over" /\ ret = TRUE
    /\ size = 3

\* a board of the default size 4 with a single empty cell and no adjacent
\* equal pair, on which is_game_over was called
C5_OneEmptyNoPair ==
    /\ op = "is_game_over"
    /\ size = DEFAULT_SIZE
    /\ CountOf(board, size, 0) = 1
    /\ Cardinality(EqualNeighbours(board, size)) = 0

\* C5 as stated: on a 4x4 board with a single empty cell and no adjacent
\* equal pairs, is_game_over returns true.
C5_Original == C5_OneEmptyNoPair => ret = TRUE

\* C5, amended: on a 4x4 board with a single empty cell and no adjacent
\* equal pairs, is_game_over returns false.
C5_OneEmptyIsNotOver == C5_OneEmptyNoPair => ret = FALSE

C5_Witness == C5_OneEmptyNoPair /\ ret = FALSE

\* the transform was applied twice in a row in the same direction
AppliedTwice ==
    /\ op = "applyMove"
    /\ prev.op = "applyMove"
    /\ prev.arg = arg

\* C6 as stated: the transform applied twice in the same direction with no
\* spawn in between is idempotent, the second application reports the board
\* unchanged.
C6_Original == AppliedTwice => ret = FALSE

\* C6, amended: when the first of two applications in the same direction
\* merged nothing, the second application reports the board unchanged (and
\* merges nothing).
C6_IdempotentWithoutMerge ==
    (AppliedTwice /\ prev.gain = 0)
        => /\ ret = FALSE
           /\ board = pre_board
           /\ score = pre_score

\* the first application slid tiles without merging, then the transform was
\* applied again
C6_Witness ==
    /\ AppliedTwice
    /\ prev.gain = 0
    /\ prev.ret = TRUE

-----------------------------------------------------------------------------
(* SpecLate: play around the first win, on the default board               *)

\* the tile two of which merge into win_value
HalfWin == win_value \div 2

\* the score of a game in which the tile v was built from spawned 2s
RECURSIVE TileWorth(_)
TileWorth(v) == IF v <= 2 THEN 0 ELSE v + 2 * TileWorth(v \div 2)

RECURSIVE RowWorth(_, _)
RowWorth(row, k) == IF k = 0 THEN 0 ELSE TileWorth(row[k]) + RowWorth(row, k - 1)

BoardWorth(b, n) == TileSum([r \in 1..n |-> RowWorth(b[r], n)], n)

\* Positions late in a game of the default size, before the first win: two
\* or four tiles of half the win value lie next to each other.
LateBoards ==
    {<< <<HalfWin, HalfWin, 2, 2>>,
        <<x, 64, 16, 8>>,
        <<y, 4, 32, 2>>,
        <<0, 2, 4, 0>> >> : x \in {0, 2}, y \in {0, 4}}
    \cup
    {<< <<HalfWin, HalfWin, x, 8>>,
        <<HalfWin, HalfWin, 4, 2>>,
        <<y, 2, 16, 4>>,
        <<0, 0, 2, 0>> >> : x \in {0, 2}, y \in {0, 4}}

LatePosition ==
    /\ size = DEFAULT_SIZE
    /\ board \in LateBoards
    /\ score = BoardWorth(board, size)
    /\ game_won = FALSE
    /\ op = "position"
    /\ arg = ""
    /\ ret = FALSE
    /\ pre_board = board
    /\ pre_score = score
    /\ pre_won = FALSE
    /\ prev = NoCall
    /\ calls = 0

\* a game just constructed on the smallest board, or a late position
InitLate == Construct(2) \/ LatePosition

NextLate ==
    \/ Count /\ UNCHANGED prev /\ \E direction \in Inputs : Move(direction)
    \/ Count /\ UNCHANGED prev /\ AddNewTile
    \/ Count /\ UNCHANGED prev /\ IsGameOver

SpecLate == InitLate /\ [][NextLate]_vars

\* the rows of b for a move along the rows, its columns otherwise
LinesOf(b, n, direction) ==
    IF direction \in {"a", "d"}
    THEN {b[r] : r \in 1..n}
    ELSE {[r \in 1..n |-> b[r][c]] : c \in 1..n}

\* two tiles of value v follow each other in the line, empty cells aside
HasPair(line, v) ==
    LET tiles == SelectSeq(line, LAMBDA x : x # 0)
    IN  \E k \in 1..(Len(tiles) - 1) : tiles[k] = v /\ tiles[k + 1] = v

\* a move of b in the direction merges two tiles into win_value
MergeGivesWin(b, n, direction) ==
    \E line \in LinesOf(b, n, direction) : HasPair(line, HalfWin)

\* C10: game_won is false at construction; it becomes true in the move in
\* which a merge first gives win_value, and by nothing else; once true it
\* stays true after every call; and a move that changes the board is still
\* applied, with its spawn, when game_won is true.
C10_WinFlag ==
    /\ op = "init" => ~game_won
    /\ (~pre_won /\ op = "move" /\ arg \in Directions
           /\ MergeGivesWin(pre_board, size, arg)) => game_won
    /\ (~pre_won /\ game_won)
         => (op = "move" /\ arg \in Directions /\ MergeGivesWin(pre_board, size, arg))
    /\ pre_won => game_won
    /\ (pre_won /\ op = "move" /\ arg \in Directions
           /\ applyMove(pre_board, arg, size).board # pre_board)
         => /\ ret = TRUE
            /\ Cardinality(Differing(board, applyMove(pre_board, arg, size).board, size)) = 1

\* a move was applied, and returned True, in a game already won
C10_Witness ==
    /\ pre_won /\ game_won
    /\ op = "move" /\ ret = TRUE
    /\ board # pre_board

-----------------------------------------------------------------------------
(* Properties of the board                                                 *)

\* v is a power of two that is at least 2
RECURSIVE IsPowerOfTwo(_)
IsPowerOfTwo(v) == v >= 2 /\ (v = 2 \/ (v % 2 = 0 /\ IsPowerOfTwo(v \div 2)))

\* b is a grid of n rows of n cells
IsGrid(b, n) == Len(b) = n /\ \A r \in 1..n : Len(b[r]) = n

\* C11: in every state reached from construction by moves and spawns, the
\* board is a grid of size x size cells, as it was when the last call
\* started, and every cell is 0 or a power of two that is at least 2.
C11_BoardIsGridOfPowers ==
    /\ IsGrid(board, size)
    /\ IsGrid(pre_board, size)
    /\ \A rc \in Cells(size) :
          board[rc[1]][rc[2]] = 0 \/ IsPowerOfTwo(board[rc[1]][rc[2]])

\* a move has merged tiles into a tile of at least 16 and spawned a tile
C11_Witness ==
    /\ op = "move" /\ ret = TRUE
    /\ score > pre_score
    /\ \E rc \in Cells(size) : board[rc[1]][rc[2]] >= 16

\* C12: add_new_tile on a board with an empty cell changes exactly one cell,
\* from 0 to 2 or 4, so that one more cell is non-zero; on a board with no
\* empty cell it changes nothing; the score and game_won are left as they
\* were.
C12_SpawnWritesOneEmptyCell ==
    op = "add_new_tile"
        => /\ score = pre_score
           /\ game_won = pre_won
           /\ IF CountOf(pre_board, size, 0) > 0
              THEN /\ Cardinality(Differing(board, pre_board, size)) = 1
                   /\ \A rc \in Differing(board, pre_board, size) :
                          /\ pre_board[rc[1]][rc[2]] = 0
                          /\ board[rc[1]][rc[2]] \in {2, 4}
                   /\ CountOf(board, size, 0) = CountOf(pre_board, size, 0) - 1
              ELSE board = pre_board

\* add_new_tile filled the last empty cell of a board, in a game with a score
C12_Witness ==
    /\ op = "add_new_tile"
    /\ CountOf(pre_board, size, 0) = 1
    /\ CountOf(board, size, 0) = 0
    /\ score > 0

\* add_new_tile was called on a board with no empty cell
C12_FullBoard ==
    /\ op = "add_new_tile"
    /\ CountOf(pre_board, size, 0) = 0

\* C13: immediately after construction with size N the board is N x N with
\* exactly two non-zero cells, each holding 2 or 4, the score is 0 and
\* game_won is false.
C13_ConstructedState ==
    op = "init"
        => /\ IsGrid(board, size)
           /\ Cardinality({rc \in Cells(size) : board[rc[1]][rc[2]] # 0}) = 2
           /\ \A rc \in Cells(size) : board[rc[1]][rc[2]] \in {0, 2, 4}
           /\ score = 0
           /\ game_won = FALSE

\* a game of size 3 just constructed, with a 2 and a 4 on the board
C13_Witness ==
    /\ op = "init"
    /\ size = 3
    /\ CountOf(board, size, 2) = 1
    /\ CountOf(board, size, 4) = 1

-----------------------------------------------------------------------------
(* Properties of the transform, on given boards                            *)

\* Line k of the board b of size n, read from the edge the direction names:
\* a row from its left end for 'a' and from its right end for 'd', a column
\* from its top for 'w' and from its bottom for 's'.
LineRead(b, n, direction, k) ==
    ListOf([j \in 1..n |->
               IF direction = "a" THEN b[k][j]
               ELSE IF direction = "d" THEN b[k][n + 1 - j]
               ELSE IF direction = "w" THEN b[j][k]
               ELSE b[n + 1 - j][k]], n)

\* no tile of the line follows an empty cell
Packed(line) ==
    \A j \in 1..(Len(line) - 1) : line[j] = 0 => line[j + 1] = 0

\* C14: the transform of move for Right, Up and Down is the leftward line
\* reduction along the axis and orientation of the direction: every row
\* read right-to-left (Right), every column read top-to-bottom (Up) or
\* bottom-to-top (Down) of the result is the reduction of the same line of
\* the board before, so the tiles end packed against the edge the direction
\* names; the score added is that of the reductions.
C14_DirectionsReduceLines ==
    (op = "applyMove" /\ arg \in {"d", "w", "s"})
        => /\ \A k \in 1..size :
                  /\ LineRead(board, size, arg, k)
                        = MoveRowLeft(LineRead(pre_board, size, arg, k), size).row
                  /\ Packed(LineRead(board, size, arg, k))
           /\ score - pre_score
                 = SumGain([k \in 1..size |->
                               MoveRowLeft(LineRead(pre_board, size, arg, k), size)], size)

\* the column 2,2,2,0 of a board of size 4, moved Down, became 0,0,2,4: the
\* merge was paired from the bottom edge
C14_Witness ==
    /\ op = "applyMove" /\ arg = "s"
    /\ size = 4
    /\ LineRead(pre_board, size, "w", 1) = <<2, 2, 2, 0>>
    /\ LineRead(board, size, "w", 1) = <<0, 0, 2, 4>>

\* the non-zero entries of a row, in their order
RECURSIVE NonZeros(_)
NonZeros(row) ==
    IF row = <<>> THEN <<>>
    ELSE IF Head(row) = 0 THEN NonZeros(Tail(row))
    ELSE <<Head(row)>> \o NonZeros(Tail(row))

\* The tiles scanned left to right: a pair of equal neighbours is replaced by
\* one tile of double value and the scan resumes after the pair.
RECURSIVE MergePairs(_)
MergePairs(tiles) ==
    IF Len(tiles) < 2 THEN tiles
    ELSE IF tiles[1] = tiles[2]
         THEN <<2 * tiles[1]>> \o MergePairs(Tail(Tail(tiles)))
         ELSE <<tiles[1]>> \o MergePairs(Tail(tiles))

\* the sum of the double values of the pairs replaced by MergePairs
RECURSIVE MergePairsScore(_)
MergePairsScore(tiles) ==
    IF Len(tiles) < 2 THEN 0
    ELSE IF tiles[1] = tiles[2]
         THEN 2 * tiles[1] + MergePairsScore(Tail(Tail(tiles)))
         ELSE MergePairsScore(Tail(tiles))

\* the board of size n with the given first row and nothing else
OnlyRow(row, n) == ListOf([r \in 1..n |-> IF r = 1 THEN row ELSE ListOf([c \in 1..n |-> 0], n)], n)

\* C15: the leftward reduction of a row of length N is a row of length N: the
\* non-zero entries in their order, each pair of equal neighbours replaced
\* once by a cell of double value with the scan resumed after the pair,
\* followed by zeros; the score added is the sum of the doubled values;
\* 2,2,2,2 gives 4,4,0,0 with 8 added to the score and 2,0,0,2 gives 4,0,0,0
\* with 4 added.
C15_RowReduction ==
    (op = "applyMove" /\ arg = "a")
        => /\ \A r \in 1..size :
                  LET merged == MergePairs(NonZeros(pre_board[r]))
                  IN  /\ Len(board[r]) = size
                      /\ SubSeq(board[r], 1, Len(merged)) = merged
                      /\ \A k \in (Len(merged) + 1)..size : board[r][k] = 0
           /\ score - pre_score
                 = TileSum([r \in 1..size |-> MergePairsScore(NonZeros(pre_board[r]))], size)
           /\ pre_board = OnlyRow(<<2, 2, 2, 2>>, 4)
                 => (board = OnlyRow(<<4, 4, 0, 0>>, 4) /\ score - pre_score = 8)
           /\ pre_board = OnlyRow(<<2, 0, 0, 2>>, 4)
                 => (board = OnlyRow(<<4, 0, 0, 0>>, 4) /\ score - pre_score = 4)

\* the row 2,2,2,2 was reduced to 4,4,0,0 and 8 was added to the score
C15_Witness ==
    /\ op = "applyMove" /\ arg = "a"
    /\ pre_board = OnlyRow(<<2, 2, 2, 2>>, 4)
    /\ board = OnlyRow(<<4, 4, 0, 0>>, 4)
    /\ score - pre_score = 8

\* the row 2,0,0,2 was reduced to 4,0,0,0 and 4 was added to the score
C15_GapRow ==
    /\ op = "applyMove" /\ arg = "a"
    /\ pre_board = OnlyRow(<<2, 0, 0, 2>>, 4)
    /\ board = OnlyRow(<<4, 0, 0, 0>>, 4)
    /\ score - pre_score = 4

\* the number of non-zero cells of a row
Tiles(row) == Len(SelectSeq(row, LAMBDA v : v # 0))

\* C16 as stated: the sum of the output row of the leftward reduction is at
\* least the sum of the input row, and the difference equals the score added
\* for that row.
C16_Original ==
    (op = "applyMove" /\ arg = "a")
        => \A r \in 1..size :
              LET in  == TileSum(pre_board[r], size)
                  out == TileSum(board[r], size)
              IN  /\ out >= in
                  /\ out - in = MoveRowLeft(pre_board[r], size).gain

\* C16, amended: the sum of the output row equals the sum of the input row;
\* the score added for the row is not a difference of sums: it is 0 exactly
\* when the row keeps its number of tiles (no merge) and otherwise positive,
\* at most the sum of the row.
C16_RowSumKept ==
    (op = "applyMove" /\ arg = "a")
        => \A r \in 1..size :
              LET in   == TileSum(pre_board[r], size)
                  out  == TileSum(board[r], size)
                  gain == MoveRowLeft(pre_board[r], size).gain
              IN  /\ out = in
                  /\ gain >= 0
                  /\ gain <= in
                  /\ gain = 0 <=> Tiles(board[r]) = Tiles(pre_board[r])

\* a row was reduced with a merge: score was added for it and its sum is
\* what it was
C16_Witness ==
    /\ op = "applyMove" /\ arg = "a"
    /\ \E r \in 1..size :
          /\ MoveRowLeft(pre_board[r], size).gain > 0
          /\ Tiles(board[r]) < Tiles(pre_board[r])
          /\ TileSum(board[r], size) = TileSum(pre_board[r], size)
    /\ score > pre_score

\* C17: reversing every row of a square board twice returns the board, and
\* transposing it twice returns the board: the board that _reverse
\* (_transpose) returned is taken back to the original by _reverse
\* (_transpose).
C17_ReverseAndTransposeTwice ==
    /\ op = "_reverse" => reverse(board) = pre_board
    /\ op = "_transpose" => transpose(board) = pre_board

\* a board of size 4 that transposing changed
C17_Witness ==
    /\ op = "_transpose"
    /\ size = 4
    /\ board # pre_board
    /\ transpose(board) = pre_board

\* a board of size 4 that reversing changed
C17_Reversed ==
    /\ op = "_reverse"
    /\ size = 4
    /\ board # pre_board
    /\ reverse(board) = pre_board

-----------------------------------------------------------------------------
(* Properties of the total of the board                                    *)

\* C18: the directional transform of a move preserves the total of the tile
\* values of the board; a move that returns True increases the total by the
\* value of the tile it spawned, 2 or 4, and a move that returns False
\* leaves the total as it was.
C18_TotalGrowsBySpawn ==
    op = "move"
        => /\ arg \in Directions
                 => BoardSum(applyMove(pre_board, arg, size).board, size)
                       = BoardSum(pre_board, size)
           /\ ret = TRUE
                 => /\ BoardSum(board, size) - BoardSum(pre_board, size) \in {2, 4}
                    /\ \A rc \in Differing(board, applyMove(pre_board, arg, size).board, size) :
                           BoardSum(board, size) - BoardSum(pre_board, size)
                              = board[rc[1]][rc[2]]
           /\ ret = FALSE => BoardSum(board, size) = BoardSum(pre_board, size)

\* a move merged tiles and spawned a 4: the total grew by 4
C18_Witness ==
    /\ op = "move" /\ ret = TRUE
    /\ score > pre_score
    /\ BoardSum(board, size) = BoardSum(pre_board, size) + 4

-----------------------------------------------------------------------------
(* SpecPlay: the main loop, with a player who makes only valid moves       *)

\* the directions in which a move changes the board
ValidMoves(b, n) == {d \in Directions : applyMove(b, d, n).board # b}

\* An iteration of the loop of main() that finds the game over: the loop is
\* left.
LoopBreak ==
    /\ op # "break"
    /\ is_game_over(board, size)
    /\ Snapshot
    /\ op' = "break"
    /\ arg' = ""
    /\ ret' = TRUE
    /\ UNCHANGED <<size, board, score, game_won, prev, calls>>

\* An iteration of the loop of main() in which the game is not over and the
\* player enters a direction that is a valid move.
LoopMove ==
    /\ op # "break"
    /\ ~is_game_over(board, size)
    /\ UNCHANGED <<prev, calls>>
    /\ \E direction \in ValidMoves(board, size) : Move(direction)

\* main() constructs the game; the whole game is played on the smallest board
InitPlay == Construct(2)

NextPlay == LoopBreak \/ LoopMove

\* The player answers every prompt: while the game is not over, a move is
\* eventually made.  This is weak fairness of LoopMove with its enabling
\* condition written out as its guard (C19_EveryGameEnds checks that a
\* valid move exists whenever the guard holds).
PlayerMoves ==
    \/ []<>(op = "break" \/ is_game_over(board, size))
    \/ []<><<LoopMove>>_vars

\* the loop goes on while it can
SpecPlay ==
    /\ InitPlay
    /\ [][NextPlay]_vars
    /\ WF_vars(LoopBreak)
    /\ PlayerMoves

\* C19: every game ends: while the game is not over the player has a valid
\* move, no sequence of moves that each return True is infinite, and the
\* loop of main() eventually finds is_game_over true and stops.
C19_EveryGameEnds ==
    /\ []((op # "break" /\ ~is_game_over(board, size)) => ValidMoves(board, size) # {})
    /\ [](op = "move" => ret = TRUE)
    /\ <>(op = "break" /\ is_game_over(board, size))

\* the loop stopped on a board that is over, after moves that merged tiles
C19_Witness ==
    /\ op = "break"
    /\ is_game_over(board, size)
    /\ score > 0

-----------------------------------------------------------------------------
(* Properties of the tiles of a won game                                   *)

\* C20: in every state reached, if a cell of the board holds win_value or
\* more then game_won is true: the flag is set by the merge that gives
\* exactly win_value, and a larger tile can only be merged from tiles that
\* set it.
C20_BigTileMeansWon ==
    (\E rc \in Cells(size) : board[rc[1]][rc[2]] >= win_value) => game_won

\* two tiles of win_value were merged into a tile of twice win_value, in a
\* move that did not itself give win_value
C20_Witness ==
    /\ op = "move"
    /\ \E rc \in Cells(size) : board[rc[1]][rc[2]] = 2 * win_value
    /\ ~MergeGivesWin(pre_board, size, arg)
    /\ game_won

====
